---- MODULE Spec2Model ----
(***************************************************************************)
(* Model of azaan_app.py: the AzaanApp object (prayer table, played set,   *)
(* clock anchor), its run loop in mock and in real (schedule library)      *)
(* mode, the daily refresh and the web query handler.                      *)
(*                                                                         *)
(* Time is counted in whole seconds from midnight of day 0.  The day is    *)
(* scaled down: HoursPerDay hours of MinsPerHour minutes of SecsPerMin     *)
(* seconds.  A "HH:MM" string is the pair <<h, m>>; parsing (strptime)     *)
(* turns it into a second of the day, formatting (strftime) turns a        *)
(* timestamp back into the pair of its minute.                             *)
(***************************************************************************)
EXTENDS Integers, Sequences, FiniteSets, TLC

HoursPerDay == 2
MinsPerHour == 3
SecsPerMin == 2
MaxDay == 1
MaxPlayDur == 1

SecsPerHour == MinsPerHour * SecsPerMin
SecsPerDay == HoursPerDay * SecsPerHour
Horizon == (MaxDay + 1) * SecsPerDay

\* Python's None: as a name, and as an absent datetime, string or label.
None == "None"
Absent == << >>

\* The five names in the order of the dict literal of fetch_prayer_times.
PrayerOrder == <<"Fajr", "Dhuhr", "Asr", "Maghrib", "Isha">>
Names == {PrayerOrder[i] : i \in 1..Len(PrayerOrder)}

\* prayer_times = {} of __init__.
EmptyTable == << >>

\* Strings the supplier can send for a time: every well-formed "HH:MM",
\* an hour out of range, and a time followed by more text ("00:00 (EST)").
ValidTimeStrs == (0..(HoursPerDay - 1)) \X (0..(MinsPerHour - 1))
BadHourStr == <<HoursPerDay, 0>>
JunkStr == <<0, 0, 0>>
TimeStrs == ValidTimeStrs \cup {BadHourStr, JunkStr}

\* datetime.strptime(s, "%H:%M"): ValueError unless hour and minute are in range.
ParsesOk(s) ==
  /\ Len(s) = 2
  /\ s[1] \in 0..(HoursPerDay - 1)
  /\ s[2] \in 0..(MinsPerHour - 1)

\* .time() of the parsed string, as a second of the day.
Strptime(s) == s[1] * SecsPerHour + s[2] * SecsPerMin

DateOf(t) == t \div SecsPerDay
TimeOf(t) == t % SecsPerDay
\* datetime.combine(date, time)
Combine(d, tod) == d * SecsPerDay + tod
\* t.strftime("%H:%M"): seconds are dropped.
Strftime(t) == <<TimeOf(t) \div SecsPerHour, (TimeOf(t) % SecsPerHour) \div SecsPerMin>>

\* A simulated clock that hands back its anchor and leaves the elapsed time out.
GetCurrentTimeFrozen(mt, mst, w) ==
  IF mt # Absent /\ mst # Absent THEN mt[1] ELSE w

\* get_current_time: mock_time + (datetime.now() - mock_start_time), or datetime.now().
GetCurrentTime(mt, mst, w) ==
  IF mt # Absent /\ mst # Absent THEN mt[1] + (w - mst[1]) ELSE w

----
\* get_next_prayer

\* list.sort(key=...) is stable: x goes after every element whose key is <= its own.
RECURSIVE InsertSorted(_, _)
InsertSorted(x, s) ==
  IF s = << >> THEN <<x>>
  ELSE IF s[1][2] <= x[2] THEN <<s[1]>> \o InsertSorted(x, Tail(s))
  ELSE <<x>> \o s

RECURSIVE SortByTime(_)
SortByTime(s) ==
  IF s = << >> THEN << >>
  ELSE InsertSorted(s[Len(s)], SortByTime(SubSeq(s, 1, Len(s) - 1)))

\* The keys of the table in dict order.
RECURSIVE KeysInOrder(_, _)
KeysInOrder(table, i) ==
  IF i > Len(PrayerOrder) THEN << >>
  ELSE IF PrayerOrder[i] \in DOMAIN table
       THEN <<PrayerOrder[i]>> \o KeysInOrder(table, i + 1)
       ELSE KeysInOrder(table, i + 1)

Items(table) == KeysInOrder(table, 1)

\* prayer_list of get_next_prayer, before the sort.
PrayerList(table, now) ==
  [i \in 1..Len(Items(table)) |->
     <<Items(table)[i], Combine(DateOf(now), Strptime(table[Items(table)[i]]))>>]

\* The scan with >= in place of >.
RECURSIVE FirstLaterOrEqual(_, _, _)
FirstLaterOrEqual(lst, now, i) ==
  IF i > Len(lst) THEN 0
  ELSE IF TimeOf(lst[i][2]) >= TimeOf(now) THEN i
  ELSE FirstLaterOrEqual(lst, now, i + 1)

\* Index of the first entry whose time of day is later than now's, 0 if none.
RECURSIVE FirstLater(_, _, _)
FirstLater(lst, now, i) ==
  IF i > Len(lst) THEN 0
  ELSE IF TimeOf(lst[i][2]) > TimeOf(now) THEN i
  ELSE FirstLater(lst, now, i + 1)

\* What get_next_prayer hands back: st is "ok" for a (name, "HH:MM",
\* time_diff) triple, "none" for (None, None, None), "error" when strptime
\* raises ValueError.
NextOk(name, str, diff) == [st |-> "ok", name |-> name, time |-> str, diff |-> diff]
NextNone == [st |-> "none", name |-> None, time |-> Absent, diff |-> 0]
NextError == [st |-> "error", name |-> None, time |-> Absent, diff |-> 0]

\* Lines 134-154: the scan of today's list; st "wrap" when the loop falls through.
ScanResult(table, now) ==
  IF DOMAIN table = {} THEN NextNone
  ELSE IF \E p \in DOMAIN table : ~ ParsesOk(table[p]) THEN NextError
  ELSE LET lst == SortByTime(PrayerList(table, now))
           k == FirstLater(lst, now, 1)
       IN IF k # 0
          THEN NextOk(lst[k][1], Strftime(lst[k][2]), lst[k][2] - now)
          ELSE [st |-> "wrap", name |-> None, time |-> Absent, diff |-> 0]

\* Lines 157-161: tomorrow's Fajr.  The timestamp is built from one read of
\* self.prayer_times (dtTable), the returned string from another (strTable).
WrapResult(dtTable, strTable, now) ==
  IF ~ ParsesOk(dtTable["Fajr"]) THEN NextError
  ELSE NextOk("Fajr", strTable["Fajr"],
              Combine(DateOf(now + SecsPerDay), Strptime(dtTable["Fajr"])) - now)

\* get_next_prayer run without interruption on one table.
GetNextPrayer(table, now) ==
  IF ScanResult(table, now).st = "wrap"
  THEN WrapResult(table, table, now)
  ELSE ScanResult(table, now)

----
\* State

VARIABLES
  prayer_times,     \* self.prayer_times
  prayer_date,      \* self.prayer_date: Absent or <<label>>
  mock_time,        \* self.mock_time: Absent or <<datetime>>
  mock_start_time,  \* self.mock_start_time: Absent or <<datetime>>
  played_prayers,   \* self.played_prayers
  jobs,             \* schedule's job list, in registration order
  wall,             \* datetime.now()
  pc,               \* where the main thread is in run()
  pending,          \* run_pending's sorted list of runnable jobs still to run
  pending_live,     \* are the jobs of pending still the registered ones
  resp,             \* the supplier's response held by fetch_prayer_times
  pre_times,        \* history: self.prayer_times as the running fetch found it
  web,              \* the web thread: position and locals of api_prayer_times
  next_res,         \* what main()'s own get_next_prayer call returned
  hist,             \* history of the current day: plays, failures, refreshes
  times_gen,        \* history: number of the fetch that wrote prayer_times
  date_gen          \* history: number of the fetch that wrote prayer_date

vars == <<prayer_times, prayer_date, mock_time, mock_start_time, played_prayers,
          jobs, wall, pc, pending, pending_live, resp, pre_times, web,
          next_res, hist, times_gen, date_gen>>

Now == GetCurrentTime(mock_time, mock_start_time, wall)
MockMode == mock_time # Absent

----
\* The supplier

TableA ==
  [p \in Names |->
     CASE p = "Fajr" -> <<0, 2>>
       [] p = "Dhuhr" -> <<1, 0>>
       [] p = "Asr" -> <<1, 1>>
       [] OTHER -> <<1, 2>>]

TableB ==
  [p \in Names |->
     CASE p = "Fajr" -> <<0, 1>>
       [] p = "Dhuhr" -> <<0, 2>>
       [] p = "Asr" -> <<1, 0>>
       [] p = "Maghrib" -> <<1, 1>>
       [] OTHER -> <<1, 2>>]

Restrict(f, S) == [x \in S |-> f[x]]

\* What requests.get can produce on day d: an exception, a non-200 status,
\* or a 200 whose JSON has some timings and maybe a readable date.
Payloads(d) ==
  {[status |-> "raise", timings |-> EmptyTable, date |-> Absent],
   [status |-> "http_error", timings |-> EmptyTable, date |-> Absent],
   [status |-> "ok", timings |-> TableA, date |-> <<d>>],
   [status |-> "ok", timings |-> TableB, date |-> <<d>>],
   [status |-> "ok", timings |-> Restrict(TableA, Names \ {"Asr"}), date |-> <<d>>],
   [status |-> "ok", timings |-> TableB, date |-> Absent],
   [status |-> "ok", timings |-> [TableA EXCEPT !["Dhuhr"] = BadHourStr], date |-> <<d>>],
   [status |-> "ok", timings |-> [TableB EXCEPT !["Isha"] = JunkStr], date |-> <<d>>]}

NoResp == [status |-> "none", timings |-> EmptyTable, date |-> Absent]

\* Lines 62-74: does the call get as far as assigning self.prayer_times?
\* It does not when requests.get raises, the status is not 200, or one of
\* the five timings[...] lookups raises KeyError.
ReachesTimes(r) == r.status = "ok" /\ Names \subseteq DOMAIN r.timings

\* A dict literal that has lost its last line.
BuiltTableShort(r) == Restrict(r.timings, Names \ {"Isha"})

\* The dict built at lines 68-74.
BuiltTable(r) == Restrict(r.timings, Names)

\* Line 75: data['data']['date']['readable'] raises KeyError when absent.
ReachesDate(r) == r.date # Absent

----
\* The schedule library, as schedule_prayers and run() use it

\* "00:01" of line 119.
RefreshAt == <<0, 1>>

\* Job.at(time_str) of a daily job raises ScheduleValueError unless the
\* string is HH:MM with the hour in range.
AtOk(s) == ParsesOk(s)

\* Job._schedule_next_run of every().day.at(s): today if the time of day is
\* still ahead of datetime.now(), tomorrow otherwise.
NextOccurrence(s, w) ==
  IF Strptime(s) > TimeOf(w)
  THEN Combine(DateOf(w), Strptime(s))
  ELSE Combine(DateOf(w) + 1, Strptime(s))

PlayJob(p, s, w) == [fn |-> "play", prayer |-> p, at |-> s, next_run |-> NextOccurrence(s, w)]
RefreshJob(w) == [fn |-> "refresh", prayer |-> None, at |-> RefreshAt, next_run |-> NextOccurrence(RefreshAt, w)]

Min(S) == CHOOSE x \in S : \A y \in S : x <= y

\* Lines 112-119: schedule.clear(), one job per table entry in dict order,
\* then the 00:01 job.  A string .at() refuses raises out of the loop and
\* leaves the jobs registered before it.
SchedulePrayers(table, w) ==
  LET keys == Items(table)
      bad == {i \in 1..Len(keys) : ~ AtOk(table[keys[i]])}
      stop == IF bad = {} THEN Len(keys) + 1 ELSE Min(bad)
      plays == [i \in 1..(stop - 1) |-> PlayJob(keys[i], table[keys[i]], w)]
  IN IF bad = {}
     THEN [ok |-> TRUE, jobs |-> plays \o <<RefreshJob(w)>>]
     ELSE [ok |-> FALSE, jobs |-> plays]

\* run_pending: sorted(job for job in jobs if job.should_run), a stable
\* sort on next_run.
RECURSIVE InsertJob(_, _)
InsertJob(j, s) ==
  IF s = << >> THEN <<j>>
  ELSE IF s[1].next_run <= j.next_run THEN <<s[1]>> \o InsertJob(j, Tail(s))
  ELSE <<j>> \o s

RECURSIVE SortJobs(_)
SortJobs(s) ==
  IF s = << >> THEN << >>
  ELSE InsertJob(s[Len(s)], SortJobs(SubSeq(s, 1, Len(s) - 1)))

ShouldRun(j, w) == j.next_run <= w

Runnable(js, w) == SortJobs(SelectSeq(js, LAMBDA j : ShouldRun(j, w)))

\* Job.run reschedules the job it ran; the job list holds it only while
\* no schedule.clear() came in between.
Rescheduled(js, j, live, w) ==
  IF live
  THEN [i \in 1..Len(js) |->
          IF js[i].fn = j.fn /\ js[i].prayer = j.prayer
          THEN [js[i] EXCEPT !.next_run = NextOccurrence(j.at, w)]
          ELSE js[i]]
  ELSE js

\* check_interval of line 232, in seconds: 1 in mock mode, 60 otherwise.
CheckInterval(mt) == IF mt # Absent THEN 1 ELSE SecsPerMin

----
\* History kept for the properties.  It describes one day at a time: the
\* first event of a later day starts it afresh.

NoFetch == [ctx |-> "none", payload |-> NoResp, ok |-> FALSE]

HistInit(d) ==
  [day |-> d,
   nplay |-> [p \in Names |-> 0],   \* play_azaan calls per name this day
   failed |-> {},                   \* names whose tick playback failed this day
   polled |-> {},                   \* names whose minute saw a mock tick this day
   nrefresh |-> 0,                  \* fetch_and_reschedule calls this day
   fired |-> << >>,                 \* names played by the latest pass, in order
   calls |-> << >>,                 \* the play_azaan calls of the latest tick
   fetch |-> NoFetch,               \* the fetch the latest pass made, if any
   nfetch |-> 0,                    \* fetch_prayer_times calls so far
   first_day |-> d]                 \* the day the app started

Rolled(h, d) ==
  IF d > h.day
  THEN [h EXCEPT !.day = d, !.nplay = [p \in Names |-> 0], !.failed = {},
                 !.polled = {}, !.nrefresh = 0]
  ELSE h

NewPass(h) == [h EXCEPT !.fired = << >>, !.calls = << >>, !.fetch = NoFetch]

Ran(h, p) == [h EXCEPT !.nplay[p] = @ + 1, !.fired = Append(@, p)]

Played(h, p, ok) == [Ran(h, p) EXCEPT !.failed = IF ok THEN @ ELSE @ \cup {p}]

RECURSIVE PlayedAll(_, _, _)
PlayedAll(h, ps, oks) ==
  IF ps = << >> THEN h
  ELSE PlayedAll(Played(h, ps[1], oks[1]), Tail(ps), Tail(oks))

Fetched(h, ctx, r, ok) ==
  [h EXCEPT !.fetch = [ctx |-> ctx, payload |-> r, ok |-> ok], !.nfetch = @ + 1]

----
\* Playback and the mock tick

\* A tick that also fires what is overdue: "<=" on the strings for "==".
DueNowOrOverdue(table, played, cur) ==
  SelectSeq(Items(table),
            LAMBDA p : /\ \/ table[p][1] < cur[1]
                          \/ table[p][1] = cur[1] /\ table[p][2] <= cur[2]
                       /\ p \notin played)

\* The tick without its "not in self.played_prayers" test.
DueNowNoDedup(table, played, cur) ==
  SelectSeq(Items(table), LAMBDA p : table[p] = cur)

\* Lines 199-201: the names the tick fires, in dict order: those whose
\* string equals the formatted clock and that are not yet played.
DueNow(table, played, cur) ==
  SelectSeq(Items(table), LAMBDA p : table[p] = cur /\ p \notin played)

SeqSet(s) == {s[i] : i \in 1..Len(s)}

\* A tick that records a name only once its playback has succeeded.
MarkPlayedOnSuccess(played, due, oks) ==
  played \cup {due[i] : i \in {j \in 1..Len(due) : oks[j]}}

\* Lines 202-203: the name is added before play_azaan is called, and
\* play_azaan swallows every failure of the player (lines 98-101), so the
\* outcomes oks never reach the set.
MarkPlayed(played, due, oks) == played \cup SeqSet(due)

\* A loop body that calls play_azaan first and adds the name afterwards.
PlayThenMark(played, p) == [seen |-> played, played |-> played \cup {p}]

\* Lines 202-203, one iteration: the name is added, then play_azaan is
\* called; seen is self.played_prayers as the call finds it.
MarkThenPlay(played, p) == [seen |-> played \cup {p}, played |-> played \cup {p}]

\* Lines 199-203 as the loop runs: the calls of play_azaan one after the
\* other, each blocking for its duration, with the seconds since the tick
\* read the clock at which the call starts and ends.
RECURSIVE TickCalls(_, _, _, _)
TickCalls(due, played, t, du) ==
  IF due = << >> THEN << >>
  ELSE <<[name |-> due[1], seen |-> MarkThenPlay(played, due[1]).seen,
          start |-> t, end |-> t + du[1]]>>
       \o TickCalls(Tail(due), MarkThenPlay(played, due[1]).played, t + du[1], Tail(du))

RECURSIVE SumSeq(_)
SumSeq(s) == IF s = << >> THEN 0 ELSE s[1] + SumSeq(Tail(s))

WebIdle ==
  [pc |-> "idle", now |-> 0, read_at |-> 0, next |-> NextNone, next_gens |-> {}, fajr_dt |-> 0,
   times |-> EmptyTable, times_gen |-> 0, date |-> Absent, date_gen |-> 0,
   countdown |-> 0, status |-> "none"]
WebOff == [WebIdle EXCEPT !.pc = "off"]

\* A finished request leaves the handler before the main thread moves on.
MainMayMove == web.pc # "done"

----
\* The main thread

\* A run() that goes on to the loop whatever schedule_prayers handed back.
RunGoesOn(ok) == FALSE

\* Lines 107-109 and 211-212: schedule_prayers hands back False when the
\* fetch failed, and run() returns on it.
RunReturns(ok) == ~ ok

\* run(), lines 207-228: the first schedule_prayers with its fetch, and
\* the start of the web thread.  Nothing else runs yet.
RunStart ==
  /\ pc = "start"
  /\ \E r \in Payloads(DateOf(wall)) :
       LET n == hist.nfetch + 1
           reg == SchedulePrayers(BuiltTable(r), wall)
           ok == ReachesTimes(r) /\ ReachesDate(r)
       IN /\ hist' = Fetched(hist, "start", r, ok)
          /\ IF ~ ReachesTimes(r)
             THEN /\ pc' = IF RunReturns(ok) THEN "exited" ELSE "loop"
                  /\ web' = IF RunReturns(ok) THEN web ELSE WebIdle
                  /\ UNCHANGED <<prayer_times, prayer_date, jobs, times_gen, date_gen>>
             ELSE IF ~ ReachesDate(r)
             THEN /\ prayer_times' = BuiltTable(r)
                  /\ times_gen' = n
                  /\ pc' = IF RunReturns(ok) THEN "exited" ELSE "loop"
                  /\ web' = IF RunReturns(ok) THEN web ELSE WebIdle
                  /\ UNCHANGED <<prayer_date, jobs, date_gen>>
             ELSE /\ prayer_times' = BuiltTable(r)
                  /\ times_gen' = n
                  /\ prayer_date' = r.date
                  /\ date_gen' = n
                  /\ jobs' = reg.jobs
                  /\ IF reg.ok
                     THEN pc' = "loop" /\ web' = WebIdle
                     ELSE pc' = "crashed" /\ UNCHANGED web
  /\ UNCHANGED <<mock_time, mock_start_time, next_res, played_prayers, wall, pending,
                 pending_live, resp, pre_times>>

\* check_prayer_times_mock, one whole call.  Every playback blocks for its
\* duration and may fail.
CheckPrayerTimesMock ==
  /\ LET now == Now
         cur == Strftime(now)
         due == DueNow(prayer_times, played_prayers, cur)
         h == NewPass(Rolled(hist, DateOf(now)))
     IN \E oks \in [1..Len(due) -> BOOLEAN], du \in [1..Len(due) -> 0..MaxPlayDur] :
          /\ played_prayers' = MarkPlayed(played_prayers, due, oks)
          /\ wall' = wall + SumSeq(du)
          /\ hist' = [PlayedAll(h, due, oks) EXCEPT
                        !.polled = @ \cup {q \in DOMAIN prayer_times : prayer_times[q] = cur},
                        !.calls = TickCalls(due, played_prayers, 0, du)]
  /\ UNCHANGED <<prayer_times, prayer_date, mock_time, mock_start_time, next_res, jobs,
                 pending, pending_live, resp, pre_times, web, times_gen, date_gen>>

\* Lines 234-236: the loop's pass in mock mode.
LoopTickMock ==
  /\ pc = "loop"
  /\ MockMode
  /\ MainMayMove
  /\ CheckPrayerTimesMock
  /\ pc' = "sleep"

\* schedule.run_pending() (line 239): collect the runnable jobs.
RunPending ==
  /\ pc = "loop"
  /\ ~ MockMode
  /\ MainMayMove
  /\ pending' = Runnable(jobs, wall)
  /\ pending_live' = TRUE
  /\ pc' = "pending"
  /\ hist' = NewPass(hist)
  /\ UNCHANGED <<prayer_times, prayer_date, mock_time, mock_start_time, next_res,
                 played_prayers, jobs, wall, resp, pre_times, web, times_gen, date_gen>>

\* A play job of run_pending: play_azaan(prayer), then the job's next run.
\* play_azaan returns None whether the player failed or not (lines
\* 98-101), so the job goes on the same way in both cases.
RunPlayJob ==
  /\ pc = "pending"
  /\ MainMayMove
  /\ pending # << >>
  /\ pending[1].fn = "play"
  /\ \E du \in 0..MaxPlayDur :
       /\ hist' = Ran(Rolled(hist, DateOf(pending[1].next_run)), pending[1].prayer)
       /\ wall' = wall + du
       /\ jobs' = Rescheduled(jobs, pending[1], pending_live, wall + du)
  /\ pending' = Tail(pending)
  /\ UNCHANGED <<prayer_times, prayer_date, mock_time, mock_start_time, next_res,
                 played_prayers, pc, pending_live, resp, pre_times, web,
                 times_gen, date_gen>>

\* The 00:01 job: fetch_and_reschedule up to the assignment of
\* self.prayer_times (lines 125-126, 53-74).
RefreshFetchTimes ==
  /\ pc = "pending"
  /\ MainMayMove
  /\ pending # << >>
  /\ pending[1].fn = "refresh"
  /\ LET h == [Rolled(hist, DateOf(pending[1].next_run)) EXCEPT !.nrefresh = @ + 1]
     IN \E r \in Payloads(DateOf(wall)) :
          IF ReachesTimes(r)
          THEN /\ prayer_times' = BuiltTable(r)
               /\ times_gen' = hist.nfetch + 1
               /\ resp' = r
               /\ pre_times' = prayer_times
               /\ pc' = "fetch_date"
               /\ hist' = h
               /\ UNCHANGED <<jobs, pending>>
          ELSE /\ hist' = Fetched(h, "refresh", r, FALSE)
               /\ jobs' = Rescheduled(jobs, pending[1], pending_live, wall)
               /\ pending' = Tail(pending)
               /\ UNCHANGED <<prayer_times, times_gen, resp, pre_times, pc>>
  /\ UNCHANGED <<prayer_date, mock_time, mock_start_time, next_res, played_prayers, wall,
                 pending_live, web, date_gen>>

\* The rest of fetch_and_reschedule: line 75, then schedule_prayers on
\* success (lines 127, 105-121).  ScheduleValueError is not caught by
\* run(): it ends the process.
RefreshFinish ==
  /\ pc = "fetch_date"
  /\ MainMayMove
  /\ LET reg == SchedulePrayers(prayer_times, wall)
     IN /\ hist' = Fetched(hist, "refresh", resp, ReachesDate(resp))
        /\ IF ~ ReachesDate(resp)
           THEN /\ jobs' = Rescheduled(jobs, pending[1], pending_live, wall)
                /\ pending' = Tail(pending)
                /\ pc' = "pending"
                /\ UNCHANGED <<prayer_date, date_gen, pending_live, web>>
           ELSE /\ prayer_date' = resp.date
                /\ date_gen' = hist.nfetch + 1
                /\ jobs' = reg.jobs
                /\ pending_live' = FALSE
                /\ IF reg.ok
                   THEN pending' = Tail(pending) /\ pc' = "pending" /\ UNCHANGED web
                   ELSE pending' = << >> /\ pc' = "crashed" /\ web' = WebOff
  /\ resp' = NoResp
  /\ pre_times' = EmptyTable
  /\ UNCHANGED <<prayer_times, mock_time, mock_start_time, next_res, played_prayers, wall,
                 times_gen>>

\* time.sleep(check_interval), line 240.  A request being served does not
\* outlast it.
Sleep ==
  /\ \/ pc = "sleep"
     \/ pc = "pending" /\ pending = << >>
  /\ web.pc = "idle"
  /\ wall < Horizon
  /\ wall' = wall + CheckInterval(mock_time)
  /\ pc' = "loop"
  /\ UNCHANGED <<prayer_times, prayer_date, mock_time, mock_start_time, next_res,
                 played_prayers, jobs, pending, pending_live, resp, pre_times,
                 web, hist, times_gen, date_gen>>

----
\* The web thread: api_prayer_times, read by read

\* A handler that empties played_prayers on its way.
WebFrameClearing ==
  /\ played_prayers' = {}
  /\ UNCHANGED <<prayer_times, prayer_date, mock_time, mock_start_time, next_res,
                 jobs, wall, pc, pending, pending_live, resp, pre_times, hist,
                 times_gen, date_gen>>

\* What api_prayer_times and get_next_prayer leave alone: they assign to
\* locals only.
WebFrame ==
  UNCHANGED <<prayer_times, prayer_date, mock_time, mock_start_time, next_res,
              played_prayers, jobs, wall, pc, pending, pending_live, resp,
              pre_times, hist, times_gen, date_gen>>

\* Lines 171, 134-154: get_next_prayer up to the end of the scan, on one
\* read of self.prayer_times.  A ValueError ends the request with a 500.
\* read_at keeps datetime.now() of the moment get_current_time was called.
WebScan ==
  /\ web.pc = "idle"
  /\ LET sc == ScanResult(prayer_times, Now)
     IN web' = [WebIdle EXCEPT
                  !.now = Now,
                  !.read_at = wall,
                  !.next = sc,
                  !.next_gens = {times_gen},
                  !.status = IF sc.st = "error" THEN "500" ELSE "none",
                  !.pc = CASE sc.st = "wrap" -> "wrap_dt"
                           [] sc.st = "error" -> "done"
                           [] OTHER -> "times"]
  /\ WebFrame

\* Lines 157-159: fajr_tomorrow, from a second read of self.prayer_times.
WebWrapDt ==
  /\ web.pc = "wrap_dt"
  /\ LET w == WrapResult(prayer_times, prayer_times, web.now)
     IN web' = [web EXCEPT
                  !.next_gens = @ \cup {times_gen},
                  !.fajr_dt = IF w.st = "ok" THEN web.now + w.diff ELSE 0,
                  !.next = IF w.st = "ok" THEN @ ELSE w,
                  !.status = IF w.st = "ok" THEN @ ELSE "500",
                  !.pc = IF w.st = "ok" THEN "wrap_str" ELSE "done"]
  /\ WebFrame

\* Lines 160-161: the returned triple, the string from a third read.
WebWrapStr ==
  /\ web.pc = "wrap_str"
  /\ web' = [web EXCEPT
               !.next_gens = @ \cup {times_gen},
               !.next = NextOk("Fajr", prayer_times["Fajr"], web.fajr_dt - web.now),
               !.pc = "times"]
  /\ WebFrame

\* Lines 174-179: the countdown, and 'prayer_times': self.prayer_times.
WebTimes ==
  /\ web.pc = "times"
  /\ web' = [web EXCEPT
               !.countdown = IF web.next.st = "ok" THEN web.next.diff ELSE 0,
               !.times = prayer_times,
               !.times_gen = times_gen,
               !.pc = "date"]
  /\ WebFrame

\* Line 180: 'date': self.prayer_date; the response is complete.
WebDate ==
  /\ web.pc = "date"
  /\ web' = [web EXCEPT
               !.date = prayer_date,
               !.date_gen = date_gen,
               !.status = "200",
               !.pc = "done"]
  /\ WebFrame

\* The handler returns.
WebReturn ==
  /\ web.pc = "done"
  /\ web' = WebIdle
  /\ WebFrame

----
\* The program: main() builds the app in real or in mock mode and runs it.

StartWalls == {0, 2 * SecsPerMin + 1}

\* --mock-time HH:MM: today's date with that time (line 258);
\* mock_start_time is datetime.now() of __init__ (line 28).
Init ==
  /\ wall \in StartWalls
  /\ \/ mock_time = Absent /\ mock_start_time = Absent
     \/ /\ mock_time \in {<<Combine(DateOf(wall), Strptime(s))>> : s \in ValidTimeStrs}
        /\ mock_start_time = <<wall>>
  /\ prayer_times = EmptyTable
  /\ prayer_date = Absent
  /\ played_prayers = {}
  /\ jobs = << >>
  /\ pc = "start"
  /\ pending = << >>
  /\ pending_live = FALSE
  /\ resp = NoResp
  /\ pre_times = EmptyTable
  /\ web = WebOff
  /\ next_res = NextNone
  /\ hist = HistInit(DateOf(Now))
  /\ times_gen = 0
  /\ date_gen = 0

Next ==
  \/ RunStart
  \/ LoopTickMock
  \/ RunPending
  \/ RunPlayJob
  \/ RefreshFetchTimes
  \/ RefreshFinish
  \/ Sleep
  \/ WebScan
  \/ WebWrapDt
  \/ WebWrapStr
  \/ WebTimes
  \/ WebDate
  \/ WebReturn

Spec == Init /\ [][Next]_vars

----
\* The AzaanApp object with its methods called directly and in any order,
\* as a caller of the class other than run() can.

MaxCalls == 2

\* fetch_and_reschedule, one whole call (lines 123-130).
CallFetchAndReschedule ==
  /\ pc = "start"
  /\ hist.nfetch < MaxCalls
  /\ \E r \in Payloads(DateOf(wall)) :
       LET ok == ReachesTimes(r) /\ ReachesDate(r)
           n == hist.nfetch + 1
           h == [Rolled(hist, DateOf(Now)) EXCEPT !.nrefresh = @ + 1]
       IN /\ prayer_times' = IF ReachesTimes(r) THEN BuiltTable(r) ELSE prayer_times
          /\ times_gen' = IF ReachesTimes(r) THEN n ELSE times_gen
          /\ prayer_date' = IF ok THEN r.date ELSE prayer_date
          /\ date_gen' = IF ok THEN n ELSE date_gen
          /\ jobs' = IF ok THEN SchedulePrayers(BuiltTable(r), wall).jobs ELSE jobs
          /\ hist' = Fetched(h, "refresh", r, ok)
  /\ UNCHANGED <<mock_time, mock_start_time, played_prayers, wall, pc, pending,
                 pending_live, resp, pre_times, web, next_res>>

\* check_prayer_times_mock called once.
CallCheckPrayerTimesMock ==
  /\ pc = "start"
  /\ MockMode
  /\ CheckPrayerTimesMock
  /\ UNCHANGED pc

\* A second goes by.
ClockAdvance ==
  /\ pc = "start"
  /\ wall < SecsPerDay
  /\ wall' = wall + 1
  /\ UNCHANGED <<prayer_times, prayer_date, mock_time, mock_start_time,
                 played_prayers, jobs, pc, pending, pending_live, resp,
                 pre_times, web, next_res, hist, times_gen, date_gen>>

NextMethods ==
  \/ CallFetchAndReschedule
  \/ CallCheckPrayerTimesMock
  \/ ClockAdvance

\* An app built at midnight with --mock-time 01:00.
InitMethods == Init /\ wall = 0 /\ mock_time = <<Strptime(<<1, 0>>)>>

SpecMethods == InitMethods /\ [][NextMethods]_vars

\* The same object filled by one fetch_and_reschedule and then ticked at
\* whatever cadence its caller chooses: any number of seconds may go by
\* between two calls of check_prayer_times_mock.
CallFirstFetch ==
  /\ hist.nfetch = 0
  /\ CallFetchAndReschedule

NextTicks ==
  \/ CallFirstFetch
  \/ CallCheckPrayerTimesMock
  \/ ClockAdvance

SpecTicks == InitMethods /\ [][NextTicks]_vars

----
\* get_next_prayer on its own: the call main() makes on a freshly fetched
\* table (line 272), for every clock reading of a day and every table whose
\* times are among the first MaxTimes minutes of the day: as many minutes
\* as names, so that the names take every relative order, ties included.

MaxTimes == 5

ResolveStrs == {s \in ValidTimeStrs : s[1] * MinsPerHour + s[2] < MaxTimes}

InitResolve ==
  /\ wall \in 0..(SecsPerDay - 1)
  /\ mock_time = Absent
  /\ mock_start_time = Absent
  /\ prayer_times \in [Names -> ResolveStrs] \cup {EmptyTable}
  /\ prayer_date = Absent
  /\ played_prayers = {}
  /\ jobs = << >>
  /\ pc = "resolve"
  /\ pending = << >>
  /\ pending_live = FALSE
  /\ resp = NoResp
  /\ pre_times = EmptyTable
  /\ web = WebOff
  /\ next_res = NextNone
  /\ hist = HistInit(DateOf(Now))
  /\ times_gen = 0
  /\ date_gen = 0

Resolve ==
  /\ pc = "resolve"
  /\ next_res' = GetNextPrayer(prayer_times, Now)
  /\ pc' = "resolved"
  /\ UNCHANGED <<prayer_times, prayer_date, mock_time, mock_start_time,
                 played_prayers, jobs, wall, pending, pending_live, resp,
                 pre_times, web, hist, times_gen, date_gen>>

NextResolve == Resolve

SpecResolve == InitResolve /\ [][NextResolve]_vars

----
\* main() called with --test-in N (lines 264-293): a temporary app on the
\* real clock fetches a table and resolves its next event, and the app
\* that runs is built with a clock anchored N seconds before that event.

MaxTestIn == 3

\* Line 284 with "+" for "-".
TestInAnchorAfter(dt, n) == dt + n

\* Line 284: next_prayer_datetime - timedelta(seconds=args.test_in).
TestInAnchor(dt, n) == dt - n

\* Lines 275-281: the resolved "HH:MM" on today's date, or on tomorrow's
\* when that is not after datetime.now().
TestInTarget(str, w) ==
  IF Combine(DateOf(w), Strptime(str)) <= w
  THEN Combine(DateOf(w), Strptime(str)) + SecsPerDay
  ELSE Combine(DateOf(w), Strptime(str))

\* Lines 266-295.  A failed fetch ends in sys.exit(1); a string strptime
\* refuses raises ValueError out of get_next_prayer and out of main().
\* The table fetched here belongs to temp_app: run() fetches its own.
MainTestIn ==
  /\ pc = "test_in"
  /\ \E r \in Payloads(DateOf(wall)), n \in 1..MaxTestIn :
       LET nx == GetNextPrayer(BuiltTable(r), wall)
           anchor == TestInAnchor(TestInTarget(nx.time, wall), n)
       IN IF ~ (ReachesTimes(r) /\ ReachesDate(r))
          THEN /\ pc' = "exited"
               /\ UNCHANGED <<mock_time, mock_start_time, next_res, hist>>
          ELSE IF nx.st = "error"
          THEN /\ pc' = "crashed"
               /\ UNCHANGED <<mock_time, mock_start_time, next_res, hist>>
          ELSE /\ next_res' = nx
               /\ mock_time' = <<anchor>>
               /\ mock_start_time' = <<wall>>
               /\ hist' = HistInit(DateOf(anchor))
               /\ pc' = "start"
  /\ UNCHANGED <<prayer_times, prayer_date, played_prayers, jobs, wall, pending,
                 pending_live, resp, pre_times, web, times_gen, date_gen>>

InitTestIn ==
  /\ wall \in StartWalls
  /\ mock_time = Absent
  /\ mock_start_time = Absent
  /\ prayer_times = EmptyTable
  /\ prayer_date = Absent
  /\ played_prayers = {}
  /\ jobs = << >>
  /\ pc = "test_in"
  /\ pending = << >>
  /\ pending_live = FALSE
  /\ resp = NoResp
  /\ pre_times = EmptyTable
  /\ web = WebOff
  /\ next_res = NextNone
  /\ hist = HistInit(DateOf(Now))
  /\ times_gen = 0
  /\ date_gen = 0

\* After main() has built the app, run() goes on as in mock mode.
NextTestIn ==
  \/ MainTestIn
  \/ RunStart
  \/ LoopTickMock
  \/ Sleep
  \/ WebScan
  \/ WebWrapDt
  \/ WebWrapStr
  \/ WebTimes
  \/ WebDate
  \/ WebReturn

SpecTestIn == InitTestIn /\ [][NextTestIn]_vars

----
\* Properties of get_next_prayer

TodOf(p) == Strptime(prayer_times[p])
LaterToday == {p \in DOMAIN prayer_times : TodOf(p) > TimeOf(Now)}
Resolved == pc = "resolved" /\ DOMAIN prayer_times # {}

\* C4: when some event's time of day is strictly later than now's,
\* get_next_prayer returns an event whose time of day is the least of those
\* strictly later than now (never one equal to now), with that time as its
\* string, and a remaining duration equal to that event's timestamp on
\* now's date minus now, which is strictly positive.
C4_NextToday ==
  (Resolved /\ LaterToday # {}) =>
    /\ next_res.st = "ok"
    /\ next_res.name \in LaterToday
    /\ \A p \in LaterToday : TodOf(next_res.name) <= TodOf(p)
    /\ next_res.time = prayer_times[next_res.name]
    /\ next_res.diff = Combine(DateOf(Now), TodOf(next_res.name)) - Now
    /\ next_res.diff > 0

\* A call made in the very second of an event while a later event remains:
\* the event of that second is passed over.
C4_Witness ==
  /\ Resolved
  /\ LaterToday # {}
  /\ \E p \in Names : TodOf(p) = TimeOf(Now)
  /\ next_res.st = "ok"
  /\ next_res.name # "Fajr"

\* C5: when now is at or after the time of day of every event,
\* get_next_prayer returns the earliest-in-day event of the table, dated
\* tomorrow, with the non-negative duration up to it.
C5_WrapEarliest ==
  (Resolved /\ LaterToday = {}) =>
    /\ next_res.st = "ok"
    /\ next_res.name \in Names
    /\ \A p \in Names : TodOf(next_res.name) <= TodOf(p)
    /\ next_res.diff = Combine(DateOf(Now) + 1, TodOf(next_res.name)) - Now
    /\ next_res.diff >= 0

\* C13: get_next_prayer called on a table without entries ends with an
\* error and hands back no result.
C13_EmptyTableFails ==
  (pc = "resolved" /\ prayer_times = EmptyTable) => next_res.st = "error"

----
\* Properties of the tick, the refresh and the query handler

\* A step that completes a call of fetch_prayer_times made by the refresh.
RefreshFetchEnds ==
  /\ hist'.nfetch = hist.nfetch + 1
  /\ hist'.fetch.ctx = "refresh"

\* self.prayer_times as it was when the fetch now running began.
TimesBefore == IF pc = "fetch_date" THEN pre_times ELSE prayer_times

\* The loop has just finished a pass that played nothing, so the pass ran
\* at the present clock reading.
QuietPassDone ==
  /\ \/ pc = "sleep"
     \/ pc = "pending" /\ pending = << >>
  /\ hist.fired = << >>

\* C1: in mock mode no name has its playback invoked more than once on a
\* day, and a step taken while a name is in played_prayers never adds a
\* play_azaan call for that name.
C1_IdempotentFiring ==
  /\ [](MockMode => \A p \in Names : hist.nplay[p] <= 1)
  /\ [][\A p \in Names :
          (MockMode /\ p \in played_prayers) => hist'.nplay[p] <= hist.nplay[p]]_vars

\* A second tick in the minute of a name already played: nothing is played.
C1_Witness ==
  /\ MockMode
  /\ pc = "sleep"
  /\ hist.fired = << >>
  /\ \E p \in played_prayers :
       /\ prayer_times[p] = Strftime(Now)
       /\ p \in hist.polled
       /\ hist.nplay[p] = 1

\* C2: every name whose minute the mock loop polled on a day has had its
\* playback invoked exactly once on that day.
C2_ExactlyOncePerDay ==
  MockMode => \A p \in hist.polled : hist.nplay[p] = 1

\* C3: right after a fetch_and_reschedule whose fetch succeeded,
\* played_prayers is empty.
C3_DailyReset ==
  [][(RefreshFetchEnds /\ hist'.fetch.ok) => played_prayers' = {}]_vars

\* C6: a fetch_and_reschedule whose fetch fails leaves prayer_times,
\* prayer_date and played_prayers as they were before the call.
C6_FailureKeepsState ==
  [][(RefreshFetchEnds /\ ~ hist'.fetch.ok) =>
       /\ prayer_times' = TimesBefore
       /\ prayer_date' = prayer_date
       /\ played_prayers' = played_prayers]_vars

\* C7: in mock mode a name whose playback failed today is in
\* played_prayers and has been played exactly once today, every name whose
\* minute was polled is in played_prayers, and the loop is still running.
C7_FailedPlaybackStillFired ==
  (MockMode /\ hist.failed # {}) =>
    /\ \A p \in hist.failed : p \in played_prayers /\ hist.nplay[p] = 1
    /\ hist.polled \subseteq played_prayers
    /\ pc \in {"loop", "sleep"}

\* Maghrib's playback failed, Isha of the same minute was still played, and
\* a later tick in that minute has played nothing.
C7_Witness ==
  /\ MockMode
  /\ pc = "sleep"
  /\ "Maghrib" \in hist.failed
  /\ "Isha" \notin hist.failed
  /\ hist.nplay["Isha"] = 1
  /\ prayer_times["Maghrib"] = prayer_times["Isha"]
  /\ prayer_times["Maghrib"] = Strftime(Now)
  /\ hist.fired = << >>

\* C8: a completed response takes its next_prayer, its prayer_times and
\* its date from one and the same fetch.
C8_ConsistentSnapshot ==
  (web.pc = "done" /\ web.status = "200") =>
    /\ web.next_gens = {web.times_gen}
    /\ web.date_gen = web.times_gen

\* C9: once the loop has made a pass at or after 00:01 on a day later than
\* the day it started, exactly one refresh has been attempted on that day,
\* in mock mode as in real mode; and no day sees more than one.
C9_RefreshOncePerDay ==
  /\ hist.nrefresh <= 1
  /\ (QuietPassDone /\ DateOf(Now) > hist.first_day
         /\ TimeOf(Now) >= Strptime(RefreshAt)) =>
       (hist.day = DateOf(Now) /\ hist.nrefresh = 1)

Malformed(r) ==
  r.status = "ok" /\ \E p \in DOMAIN r.timings : ~ ParsesOk(r.timings[p])

\* C10: a refresh whose payload holds a string that is no HH:MM fails,
\* leaves prayer_times and the registered jobs as they were, and leaves the
\* loop running.
C10_MalformedRejected ==
  [][(RefreshFetchEnds /\ Malformed(hist'.fetch.payload)) =>
       /\ ~ hist'.fetch.ok
       /\ prayer_times' = TimesBefore
       /\ jobs' = jobs
       /\ pc' # "crashed"]_vars

----
\* Properties of the start

\* C14: a run() whose first fetch fails ends there: the step that makes
\* the failed fetch leaves run(), and in that end state the web thread was
\* never started, no job is registered, nothing was or is ever played, and
\* no further step is taken.
C14_FatalStart ==
  /\ [][(pc = "start" /\ hist'.nfetch = hist.nfetch + 1 /\ ~ hist'.fetch.ok) =>
          pc' = "exited"]_vars
  /\ [](pc = "exited" =>
          /\ web.pc = "off"
          /\ jobs = << >>
          /\ played_prayers = {}
          /\ \A p \in Names : hist.nplay[p] = 0)
  /\ [][pc = "exited" => vars' = vars]_vars

\* A simulated run whose first fetch failed after the table had been
\* assigned: the table holds times the tick would match, and run() is over.
C14_Witness ==
  /\ pc = "exited"
  /\ MockMode
  /\ hist.nfetch = 1
  /\ hist.fetch.ctx = "start"
  /\ ~ hist.fetch.ok
  /\ \E p \in DOMAIN prayer_times : prayer_times[p] = Strftime(Now)

----
\* Properties of the clock

\* The handler holds a reading of get_current_time.
WebHoldsReading == web.pc \notin {"off", "idle"}

\* C11: in mock mode no step changes mock_time or mock_start_time, the
\* reading a query took is mock_time plus the real time that had elapsed
\* since mock_start_time when it was taken, and a reading taken now differs
\* from it by exactly the real time elapsed in between.
C11_ClockFromFixedAnchor ==
  /\ [][MockMode => (mock_time' = mock_time /\ mock_start_time' = mock_start_time)]_vars
  /\ []((MockMode /\ WebHoldsReading) =>
          /\ mock_start_time # Absent
          /\ web.now = mock_time[1] + (web.read_at - mock_start_time[1])
          /\ Now - web.now = wall - web.read_at)

\* A query read the clock some time after the start, and a playback of
\* the tick loop has let real time pass since.
C11_Witness ==
  /\ MockMode
  /\ WebHoldsReading
  /\ web.read_at > mock_start_time[1]
  /\ wall > web.read_at
  /\ played_prayers # {}

----
\* Properties of the simulated run

Anchor == mock_time[1]

\* Real seconds since the app was built.
Elapsed == wall - mock_start_time[1]

\* Real seconds since the app was built at which the next tick reads the clock.
NextTickAt == IF pc = "sleep" THEN Elapsed + 1 ELSE Elapsed

\* The first start of p's minute at or after the anchor, on the simulated clock.
DueAt(p) ==
  IF Strptime(prayer_times[p]) >= TimeOf(Anchor)
  THEN Combine(DateOf(Anchor), Strptime(prayer_times[p]))
  ELSE Combine(DateOf(Anchor) + 1, Strptime(prayer_times[p]))

\* The N of the claim: how long before p's minute the simulated clock starts.
NoticeOf(p) == DueAt(p) - Anchor

OrderIndex(p) == CHOOSE i \in 1..Len(PrayerOrder) : PrayerOrder[i] = p

\* The loop runs on a simulated clock and the table it ticks on holds the
\* event main() resolved at the time main() resolved it for.
TestInRunning ==
  /\ MockMode
  /\ pc \in {"loop", "sleep"}
  /\ next_res.st = "ok"
  /\ prayer_times[next_res.name] = next_res.time

\* Nothing else is due between the anchor and p's minute: the anchor lies
\* in no event's minute, no other event's minute starts before p's, and an
\* event that shares p's minute comes after p in the table.
ClearRunUp(p) ==
  /\ \A q \in Names : prayer_times[q] # Strftime(Anchor)
  /\ \A q \in Names \ {p} :
       \/ DueAt(q) > DueAt(p)
       \/ DueAt(q) = DueAt(p) /\ OrderIndex(q) > OrderIndex(p)

\* The resolved event is still unplayed only while the tick of its second
\* (or the one after) is still to come.
FiredInTime(p) ==
  p \notin played_prayers => NextTickAt <= NoticeOf(p) + 1

\* The simulated clock started N seconds before p's minute, N the argument.
AnchoredBefore(p) == NoticeOf(p) \in 1..MaxTestIn

\* The step plays p: before anything else, within the notice and once.
FiresFirst(p) ==
  (p \notin played_prayers /\ p \in played_prayers') =>
    /\ played_prayers = {}
    /\ hist'.fired # << >>
    /\ hist'.fired[1] = p
    /\ hist'.nplay[p] = 1
    /\ Elapsed <= NoticeOf(p) + 1

----
\* Properties of the tick called at any cadence (SpecTicks)

\* The step takes p from Pending to Fired.
Fires(p) == p \notin played_prayers /\ p \in played_prayers'

\* C15: a step that takes a name from Pending to Fired is one whose clock
\* reading, cut to the minute, equals the name's string in the table; so a
\* name played today had a tick in its minute today, and on the day the
\* app started a name whose minute saw no tick is still Pending, however
\* far the clock has moved on.
C15_FireOnlyOnMinuteMatch ==
  /\ [][\A p \in Names :
          (MockMode /\ Fires(p)) =>
            /\ p \in DOMAIN prayer_times
            /\ prayer_times[p] = Strftime(Now)
            /\ p \in SeqSet(hist'.fired)]_vars
  /\ [](MockMode =>
          \A p \in Names :
            /\ hist.nplay[p] > 0 => p \in hist.polled
            /\ (hist.day = hist.first_day /\ p \notin hist.polled) =>
                  p \notin played_prayers)

\* The minute of p went by without a tick, a tick in a later minute of the
\* same day has played a later event, and p is still Pending.
C15_Witness ==
  /\ MockMode
  /\ DOMAIN prayer_times = Names
  /\ \A p \in Names : ParsesOk(prayer_times[p])
  /\ hist.day = hist.first_day
  /\ DateOf(Anchor) = hist.day
  /\ \E p \in Names \ played_prayers, q \in played_prayers :
       /\ p \notin hist.polled
       /\ hist.nplay[p] = 0
       /\ TimeOf(Anchor) <= TodOf(p)
       /\ TodOf(p) + SecsPerMin <= TodOf(q)
       /\ hist.nplay[q] = 1
       /\ q \in hist.polled

----
\* Properties of one tick of the loop

\* The loop of run() has just come back from check_prayer_times_mock.
TickDone == MockMode /\ pc = "sleep"

\* Seconds the latest tick spent in play_azaan.
TickBlocked ==
  IF hist.calls = << >> THEN 0 ELSE hist.calls[Len(hist.calls)].end

\* The "HH:MM" the latest tick compared the table with.
TickMinute == Strftime(Now - TickBlocked)

\* C16: after a tick, every name whose string is the tick's minute is
\* Fired; the tick's play_azaan calls are for names of that minute, each
\* played once, in the order Fajr, Dhuhr, Asr, Maghrib, Isha; a call
\* starts when the call before it has ended, at which moment no later
\* name of the tick is marked yet; each call finds its own name already in
\* played_prayers; and the tick returns when its last call has ended.
C16_OrderWithinTick ==
  /\ [](TickDone =>
          LET c == hist.calls
          IN /\ \A p \in Names : prayer_times[p] = TickMinute => p \in played_prayers
             /\ hist.fired = [i \in 1..Len(c) |-> c[i].name]
             /\ \A i \in 1..Len(c) :
                  /\ prayer_times[c[i].name] = TickMinute
                  /\ hist.nplay[c[i].name] = 1
                  /\ c[i].name \in c[i].seen
                  /\ c[i].start = IF i = 1 THEN 0 ELSE c[i - 1].end
                  /\ c[i].end >= c[i].start
                  /\ \A j \in (i + 1)..Len(c) :
                       /\ OrderIndex(c[i].name) < OrderIndex(c[j].name)
                       /\ c[j].name \notin c[i].seen)
  /\ [][(MockMode /\ pc = "loop" /\ pc' = "sleep") =>
          wall' = wall + (IF hist'.calls = << >> THEN 0
                          ELSE hist'.calls[Len(hist'.calls)].end)]_vars

\* One tick has played Maghrib and then Isha, which share a minute, and
\* Isha's playback began when Maghrib's, a second long, was over.
C16_Witness ==
  /\ TickDone
  /\ Len(hist.calls) = 2
  /\ hist.calls[1].name = "Maghrib"
  /\ hist.calls[2].name = "Isha"
  /\ hist.calls[1].end = 1
  /\ hist.calls[2].start = 1
  /\ {"Maghrib", "Isha"} \subseteq played_prayers

----
\* Properties of the query handler

\* A step of api_prayer_times: the web thread moves, and is neither being
\* started nor ending with the process.
HandlerStep == web.pc # "off" /\ web'.pc # "off" /\ web' # web

\* C17: no step of the query handler changes prayer_times, prayer_date,
\* played_prayers, mock_time, mock_start_time or the registered jobs.
C17_QueryReadOnly ==
  [][HandlerStep =>
       /\ prayer_times' = prayer_times
       /\ prayer_date' = prayer_date
       /\ played_prayers' = played_prayers
       /\ mock_time' = mock_time
       /\ mock_start_time' = mock_start_time
       /\ jobs' = jobs]_vars

\* A request has been answered while the tick loop played an event in
\* between its clock reading and its reply.
C17_Witness ==
  /\ web.pc = "done"
  /\ web.status = "200"
  /\ played_prayers # {}
  /\ jobs # << >>
  /\ hist.fired # << >>
  /\ wall > web.read_at

----
\* Properties of the table

\* A 200 response whose timings lack one of the five names.
Incomplete(r) == r.status = "ok" /\ ~ (Names \subseteq DOMAIN r.timings)

\* C18: prayer_times is empty or maps exactly the five names; it is empty
\* only while no fetch has succeeded; and a fetch whose payload lacks a
\* name fails and leaves prayer_times as it was.
C18_TableComplete ==
  /\ [](DOMAIN prayer_times = {} \/ DOMAIN prayer_times = Names)
  /\ [](prayer_times = EmptyTable => (times_gen = 0 /\ date_gen = 0))
  /\ [][(hist'.nfetch = hist.nfetch + 1 /\ Incomplete(hist'.fetch.payload)) =>
          /\ ~ hist'.fetch.ok
          /\ prayer_times' = prayer_times
          /\ prayer_date' = prayer_date]_vars

\* A daily refresh got a payload without Asr: it failed, and the table of
\* the day before, with its five names, is still the live one.
C18_Witness ==
  /\ hist.fetch.ctx = "refresh"
  /\ Incomplete(hist.fetch.payload)
  /\ ~ hist.fetch.ok
  /\ hist.nfetch >= 2
  /\ DOMAIN prayer_times = Names
  /\ "Asr" \notin DOMAIN hist.fetch.payload.timings

----
\* Properties of the registered jobs

\* The positions of the jobs that play p, and of those that refresh.
PlayJobsOf(p) == {i \in 1..Len(jobs) : jobs[i].fn = "play" /\ jobs[i].prayer = p}
RefreshJobs == {i \in 1..Len(jobs) : jobs[i].fn = "refresh"}

\* The real-mode loop is between two jobs or two passes: no fetch is under way.
BetweenJobs == ~ MockMode /\ pc \in {"loop", "pending"}

\* C19: in real mode, whenever no refresh is under way, the registered
\* jobs are one play job per name of the live table, at the time the table
\* holds for that name, and one 00:01 refresh job, and nothing else.
C19_JobsMirrorTable ==
  BetweenJobs =>
    /\ Len(jobs) = Cardinality(Names) + 1
    /\ \A p \in Names :
         /\ Cardinality(PlayJobsOf(p)) = 1
         /\ \A i \in PlayJobsOf(p) : jobs[i].at = prayer_times[p]
    /\ Cardinality(RefreshJobs) = 1
    /\ \A i \in RefreshJobs : jobs[i].at = RefreshAt

====
